---- MODULE Spec2Model ----
(***************************************************************************)
(* State-machine model of the MCP tool adapters of this repository:        *)
(*   servers/memory-store  (in-memory key-value store)                     *)
(*   servers/npm-info      (npm registry lookups)                          *)
(*   servers/slack         (Slack actions behind ensureChannelAccess)      *)
(*   servers/github-server (GitHub mutations and repository resources)     *)
(* Every adapter is its own process; a behaviour of the model is the life  *)
(* of one adapter process, chosen in Init by the variable server.          *)
(***************************************************************************)
EXTENDS Integers, Sequences, FiniteSets, TLC

\* ---------------------------------------------------------------- bounds
NumKeys == 2
NumVals == 2
\* how many invocations may be pending or suspended together
MaxInFlight == 2
\* repositories of the authenticated user, and distinct records GitHub returns for one
NumRepos == 2
NumRecords == 2

\* ------------------------------------------------------- JavaScript values
\* The JavaScript value undefined (a destructured field the caller omitted).
Undefined == "undefined"
\* Marker of "the Map holds no entry for this key" (Map.has(key) is false).
NoEntry == "<no entry>"

Keys == {"k" \o ToString(i) : i \in 1..NumKeys}
Vals == {"v" \o ToString(i) : i \in 1..NumVals}
\* What the unchecked cast of request.params.arguments can hand to the store.
KeySpace == Keys \cup {Undefined}
ValSpace == Vals \cup {Undefined}

Servers == {"memory", "npm", "github", "slack"}

VARIABLES
  server,     \* which adapter this process is
  store,      \* MemoryStoreImpl.store : Map<string,string>
  memLast,    \* memory-store: the latest call_tool request and its outcome
  memPrev,    \* memory-store: the call_tool request handled before memLast.req
  npmLast,    \* npm-info: the latest call_tool request, its outcome, its outbound calls
  npmHist,    \* npm-info: what the latest request read and listed, when it was a get_release_history
  ghLast,     \* github-server: the call_tool request of the latest request, its outcome, its outbound calls
  repoCache,  \* github-server: repoCache, per repository full name the cached record
  ghRes,      \* github-server: the latest resources request, its outcome, what it fetched
  inflight,   \* slack: the call_tool invocations whose effect is suspended, per slot
  slackDone,  \* slack: the invocation that produced its outcome in the latest step
  membership, \* Slack workspace: per channel, whether and how the bot is a member
  credential, \* process.env: the token variable the adapter reads ("set", "empty", "unset")
  proc,       \* where the process is: "loading", "connecting", "serving", or how it ended
  listing,    \* the list_tools response produced in the latest step, or NoListing
  memRunning  \* memory-store: per slot, the handler that is between its check and its write

vars == <<server, store, memLast, memPrev, npmLast, ghLast, inflight, slackDone, membership,
          credential, proc, listing, memRunning, repoCache, ghRes, npmHist>>
procVars == <<server, credential, proc>>
npmVars == <<npmLast, npmHist>>
ghVars == <<ghLast, repoCache, ghRes>>
memVars == <<store, memLast, memPrev, memRunning>>
slackVars == <<inflight, slackDone, membership>>

\* ------------------------------------------------------------- process
\* the adapters that read a token from process.env when the module loads
RequiresCredential(s) == s \in {"slack", "github"}

\* a check that only notices a variable that is not there at all
CredentialUnsetOnly == credential = "unset"

\* if (!TOKEN): an unset variable and an empty one are both falsy
CredentialMissing == credential # "set"

\* module top level: the token check, then main()/run() is started
LoadModule ==
  /\ proc = "loading"
  /\ proc' = IF RequiresCredential(server) /\ CredentialMissing THEN "threw" ELSE "connecting"
  /\ UNCHANGED <<server, credential, store, memLast, memPrev, npmVars, ghVars,
                 inflight, slackDone, membership, listing, memRunning>>

\* how the process ends when server.connect(transport) rejects: github-server
\* calls process.exit(1), the other three only console.error the rejection
ConnectFailed(s) == IF s = "github" THEN "exit 1" ELSE "logged"

\* await server.connect(transport)
Connect(ok) ==
  /\ proc = "connecting"
  /\ proc' = IF ok THEN "serving" ELSE ConnectFailed(server)
  /\ UNCHANGED <<server, credential, store, memLast, memPrev, npmVars, ghVars,
                 inflight, slackDone, membership, listing, memRunning>>

\* an adapter whose settle wait would block the thread: nothing is handled
\* while an invocation waits
ServingUnlessWaiting(s) ==
  server = s /\ proc = "serving" /\ \A k \in DOMAIN inflight : inflight[k].pc # "sleep"

\* requests reach the handlers of adapter s once its transport is connected
Serving(s) == server = s /\ proc = "serving"

\* a tool of the catalogue: its name and inputSchema.required
Tool(name, required) == [name |-> name, required |-> required]
NoListing == [given |-> FALSE, tools |-> {}]
Listing(tools) == [given |-> TRUE, tools |-> tools]

\* ------------------------------------------------------------- responses
EmptyMap == [k \in KeySpace |-> NoEntry]

\* text of a content block: a tag for the template, and the interpolated parts
Text(tag, k, v, m) == [tag |-> tag, k |-> k, v |-> v, m |-> m]
NoText == Text("none", "", "", EmptyMap)

\* the handler returned { content: [{type:'text', text}] }
Returned(text) == [kind |-> "returned", isError |-> FALSE, code |-> "none", text |-> text]
\* the handler returned { content: [...], isError: true }
ReturnedError(text) == [kind |-> "returned", isError |-> TRUE, code |-> "none", text |-> text]
\* the handler threw / its promise rejected with an error carrying this code
Thrown(code, text) == [kind |-> "thrown", isError |-> FALSE, code |-> code, text |-> text]

\* ------------------------------------------------------- MemoryStoreImpl
\* An Effect outcome: the value of Effect.sync's thunk, or the error it threw.
Succeed(value, st) == [ok |-> TRUE, value |-> value, code |-> "none", msg |-> NoText, store |-> st]
Die(code, msg, st) == [ok |-> FALSE, value |-> Undefined, code |-> code, msg |-> msg, store |-> st]

KeyNotFound(key) == Text("key not found", key, "", EmptyMap)

\* a set that refuses to overwrite an existing entry
MemSetKeepsOld(st, key, value) ==
  Succeed(Undefined, IF st[key] = NoEntry THEN [st EXCEPT ![key] = value] ELSE st)

MemSet(st, key, value) ==
  Succeed(Undefined, [st EXCEPT ![key] = value])

\* a get that answers a missing key with the empty string
MemGetDefaults(st, key) ==
  LET value == st[key] IN
  Succeed(IF value = NoEntry \/ value = Undefined THEN "" ELSE value, st)

MemGet(st, key) ==
  LET value == st[key] IN
  IF value = NoEntry \/ value = Undefined
    THEN Die("InvalidRequest", KeyNotFound(key), st)
    ELSE Succeed(value, st)

\* a delete that clears the whole map
MemDeleteClears(st, key) ==
  IF st[key] = NoEntry
    THEN Die("InvalidRequest", KeyNotFound(key), st)
    ELSE Succeed(Undefined, EmptyMap)

MemDelete(st, key) ==
  IF st[key] = NoEntry
    THEN Die("InvalidRequest", KeyNotFound(key), st)
    ELSE Succeed(Undefined, [st EXCEPT ![key] = NoEntry])

\* a listing that leaves out the entries holding the value of the first key
MemListOmits(st) == [k \in KeySpace |-> IF st[k] = st["k1"] THEN NoEntry ELSE st[k]]

\* Object.fromEntries(this.store.entries())
MemList(st) == st

\* JSON.stringify of a record: properties whose value is undefined are dropped
JsonObject(m) == [k \in KeySpace |-> IF m[k] = Undefined THEN NoEntry ELSE m[k]]

\* handleEffect: Effect.runSync(effect.pipe(Effect.map(...))); a thunk that
\* threw makes runSync throw, and nothing around it catches.
HandleEffect(outcome, successText, jsonText) ==
  IF outcome.ok
    THEN Returned(IF successText # NoText THEN successText ELSE jsonText)
    ELSE Thrown(outcome.code, outcome.msg)

MemToolNames == {"set_value", "get_value", "delete_value", "list_values"}
UnknownTool == "no_such_tool"

\* request.params of a call_tool request; hasArgs = FALSE is a request
\* without an arguments member, Undefined is a field the caller left out
MemRequest(name, hasArgs, key, value) ==
  [name |-> name, hasArgs |-> hasArgs, key |-> key, value |-> value]

\* fields a tool does not read are left out of the enumerated requests, and
\* a set_value that leaves a field out is taken with one key or value for
\* the field it does give
MemRequests ==
  {MemRequest(n, FALSE, Undefined, Undefined) : n \in MemToolNames \cup {UnknownTool}}
  \cup {MemRequest("set_value", TRUE, k, v) : k \in Keys, v \in Vals}
  \cup {MemRequest("set_value", TRUE, Undefined, "v1"),
        MemRequest("set_value", TRUE, "k1", Undefined),
        MemRequest("set_value", TRUE, Undefined, Undefined)}
  \cup {MemRequest(n, TRUE, k, Undefined) : n \in {"get_value", "delete_value"}, k \in KeySpace}
  \cup {MemRequest(n, TRUE, Undefined, Undefined) : n \in {"list_values", UnknownTool}}

NoRequest == [name |-> "none", hasArgs |-> FALSE, key |-> Undefined, value |-> Undefined]
\* listed is the record the list effect succeeded with (EmptyMap for the other tools)
NoEvent == [req |-> NoRequest, resp |-> Returned(NoText), listed |-> EmptyMap]

DestructureFailed == Thrown("TypeError", Text("cannot destructure", "", "", EmptyMap))

\* The CallToolRequestSchema handler of memory-store: response and new store.
MemHandle(st, req) ==
  CASE req.name = "set_value" ->
         IF ~req.hasArgs THEN [resp |-> DestructureFailed, store |-> st, listed |-> EmptyMap]
         ELSE LET o == MemSet(st, req.key, req.value) IN
              [resp |-> HandleEffect(o, Text("saved", req.key, req.value, EmptyMap), NoText),
               store |-> o.store, listed |-> EmptyMap]
    [] req.name = "get_value" ->
         IF ~req.hasArgs THEN [resp |-> DestructureFailed, store |-> st, listed |-> EmptyMap]
         ELSE LET o == MemGet(st, req.key) IN
              [resp |-> HandleEffect(o, NoText, Text("json string", "", o.value, EmptyMap)),
               store |-> o.store, listed |-> EmptyMap]
    [] req.name = "delete_value" ->
         IF ~req.hasArgs THEN [resp |-> DestructureFailed, store |-> st, listed |-> EmptyMap]
         ELSE LET o == MemDelete(st, req.key) IN
              [resp |-> HandleEffect(o, Text("deleted", req.key, "", EmptyMap), NoText),
               store |-> o.store, listed |-> EmptyMap]
    [] req.name = "list_values" ->
         LET o == Succeed(Undefined, st) IN
         [resp |-> HandleEffect(o, NoText, Text("json object", "", "", JsonObject(MemList(st)))),
          store |-> st, listed |-> MemList(st)]
    [] OTHER ->
         [resp |-> Thrown("MethodNotFound", Text("unknown tool", req.name, "", EmptyMap)),
          store |-> st, listed |-> EmptyMap]

MemCallTool(req) ==
  /\ Serving("memory")
  /\ LET h == MemHandle(store, req) IN
       /\ store' = h.store
       /\ memLast' = [req |-> req, resp |-> h.resp, listed |-> h.listed]
  /\ memPrev' = memLast.req
  /\ listing' = NoListing
  /\ UNCHANGED memRunning
  /\ UNCHANGED <<procVars, npmVars, ghVars, slackVars>>

\* ---- the same handler in two steps, for requests that are pending together
\* a handler invocation that has evaluated the check of its operation on the
\* store it saw (snap) and has not yet written
NotRunning == [phase |-> "idle", req |-> NoRequest, snap |-> EmptyMap]
Checked(req, st) == [phase |-> "checked", req |-> req, snap |-> st]

MemSlots == 1..MaxInFlight
MemFreeSlot ==
  CHOOSE i \in MemSlots :
    memRunning[i].phase = "idle" /\ \A j \in MemSlots : j < i => memRunning[j].phase # "idle"

\* a handler that would await between its check and its write
Interruptible == TRUE

\* the handler body is synchronous from the switch to its return
\* (Effect.runSync, no await): while one invocation is inside it, no other runs
Uninterrupted == \A j \in MemSlots : memRunning[j].phase # "checked"

\* the handler is entered for a pending request and evaluates its check
MemBegin(req) ==
  /\ Serving("memory")
  /\ Uninterrupted
  /\ \E i \in MemSlots : memRunning[i].phase = "idle"
  /\ memRunning' = [memRunning EXCEPT ![MemFreeSlot] = Checked(req, store)]
  /\ memLast' = NoEvent
  /\ listing' = NoListing
  /\ UNCHANGED <<procVars, store, memPrev, npmVars, ghVars, slackVars>>

\* the rest of the handler: it writes what its check decided and returns
MemCommit(i) ==
  /\ Serving("memory")
  /\ memRunning[i].phase = "checked"
  /\ LET r == memRunning[i]
         h == MemHandle(r.snap, r.req) IN
       /\ store' = [k \in KeySpace |-> IF h.store[k] # r.snap[k] THEN h.store[k] ELSE store[k]]
       /\ memLast' = [req |-> r.req, resp |-> h.resp, listed |-> h.listed]
  /\ memRunning' = [memRunning EXCEPT ![i] = NotRunning]
  /\ listing' = NoListing
  /\ UNCHANGED <<procVars, memPrev, npmVars, ghVars, slackVars>>

\* ------------------------------------------------------------- npm-info
NumPackages == 1
\* versions of a package in the registry
NumVersions == 6
Packages == {"pkg" \o ToString(i) : i \in 1..NumPackages}
NpmToolNames == {"get_package_info", "get_release_history", "analyze_dependencies"}

\* packageName: Undefined when the caller left the field out
NpmRequest(name, hasArgs, packageName) ==
  [name |-> name, hasArgs |-> hasArgs, packageName |-> packageName]

NpmRequests ==
  {NpmRequest(n, FALSE, Undefined) : n \in NpmToolNames \cup {UnknownTool}}
  \cup {NpmRequest(n, TRUE, p) : n \in NpmToolNames, p \in Packages \cup {Undefined, ""}}
  \cup {NpmRequest(UnknownTool, TRUE, Undefined)}

NoNpmRequest == NpmRequest("none", FALSE, Undefined)
NoCallEvent(req) == [req |-> req, resp |-> Returned(NoText), calls |-> <<>>]

\* String(args.packageName): a missing field becomes the string "undefined"
ToJsString(x) == IF x = Undefined THEN "undefined" ELSE x

NpmTextTag(name) ==
  CASE name = "get_package_info" -> "json package info"
    [] name = "get_release_history" -> "json release history"
    [] OTHER -> "json dependency analysis"

\* getPackageInfo / getReleaseHistory / analyzeDependencies: the argument
\* check, then one npmFetch.json(packageName); fetchOk is whether it resolved
NpmExecute(name, packageName, fetchOk) ==
  IF packageName = ""
    THEN [resp |-> Thrown("InvalidParams", Text("package name required", "", "", EmptyMap)),
          calls |-> <<>>]
    ELSE [resp |-> IF fetchOk
                     THEN Returned(Text(NpmTextTag(name), packageName, "", EmptyMap))
                     ELSE Thrown("FetchError", Text("registry error", packageName, "", EmptyMap)),
          calls |-> <<packageName>>]

\* The CallToolRequestSchema handler of npm-info.  The catch clause turns only
\* axios errors into an isError response; npmFetch rejects with its own error
\* classes and McpError is not an axios error, so both are rethrown.
NpmHandle(req, fetchOk) ==
  IF ~req.hasArgs
    THEN [resp |-> Thrown("InvalidParams", Text("arguments required", "", "", EmptyMap)),
          calls |-> <<>>]
    ELSE IF req.name \in NpmToolNames
      THEN NpmExecute(req.name, ToJsString(req.packageName), fetchOk)
      ELSE [resp |-> Thrown("MethodNotFound", Text("unknown tool", req.name, "", EmptyMap)),
            calls |-> <<>>]

\* ---- get_release_history
\* the limit field of the arguments: given is FALSE when the caller left it out
Limit(given, n) == [given |-> given, n |-> n]
NoLimit == Limit(FALSE, 0)
MaxLimit == NumVersions + 1
Limits == {NoLimit} \cup {Limit(TRUE, n) : n \in 0..MaxLimit}

\* limit: args.limit ? Number(args.limit) : undefined  (0 is falsy)
ValidLimit(limit) == IF limit.given /\ limit.n # 0 THEN limit ELSE NoLimit

\* const limit = args.limit || 5
DefaultLimit == 5
EffectiveLimit(limit) == IF limit.given /\ limit.n # 0 THEN limit.n ELSE DefaultLimit

\* info.time of the registry document, as Object.entries lists it: the two
\* timestamp entries, then one entry per version.  The versions were
\* published in key order starting from version number `first`, on distinct
\* dates 1..NumVersions; created is the oldest date, modified the newest.
Entry(version, date) == [version |-> version, date |-> date]
VersionName(i) == "1.0." \o ToString(i)
VersionNames == {VersionName(i) : i \in 1..NumVersions}
RegistryTime(first) ==
  <<Entry("created", 0), Entry("modified", NumVersions + 1)>>
  \o [i \in 1..NumVersions |-> Entry(VersionName(i), ((i - first + NumVersions) % NumVersions) + 1)]
RegistryTimes == {RegistryTime(first) : first \in 1..NumVersions}

\* .filter(([version]) => version !== 'created' && version !== 'modified')
RECURSIVE WithoutTimestamps(_)
WithoutTimestamps(entries) ==
  IF entries = <<>> THEN <<>>
  ELSE IF Head(entries).version \in {"created", "modified"}
    THEN WithoutTimestamps(Tail(entries))
    ELSE <<Head(entries)>> \o WithoutTimestamps(Tail(entries))

\* .sort((a, b) => date(b) - date(a)): newest first, equal dates keep their order
RECURSIVE SortNewestFirst(_)
SortNewestFirst(entries) ==
  IF entries = <<>> THEN <<>>
  ELSE LET n == Len(entries)
           i == CHOOSE i \in 1..n :
                  /\ \A j \in 1..n : entries[j].date <= entries[i].date
                  /\ \A j \in 1..(i - 1) : entries[j].date < entries[i].date
       IN <<entries[i]>>
          \o SortNewestFirst(SubSeq(entries, 1, i - 1) \o SubSeq(entries, i + 1, n))

\* Array.prototype.slice(0, end): a negative end counts from the end
Slice(s, end) ==
  LET n == Len(s)
      e == IF end < 0 THEN (IF n + end < 0 THEN 0 ELSE n + end)
                      ELSE (IF end > n THEN n ELSE end)
  IN SubSeq(s, 1, e)

\* getReleaseHistory: the versions of the history it returns, in order
ReleaseVersions(time, limit) ==
  LET kept == Slice(SortNewestFirst(WithoutTimestamps(time)), EffectiveLimit(limit))
  IN [k \in 1..Len(kept) |-> kept[k].version]

History(given, limit, time, versions) ==
  [given |-> given, limit |-> limit, time |-> time, versions |-> versions]
NoHistory == History(FALSE, NoLimit, <<>>, <<>>)

\* limit and time are read only by a get_release_history that reaches the registry
ReadsHistory(req, fetchOk) ==
  /\ req.name = "get_release_history"
  /\ req.hasArgs
  /\ ToJsString(req.packageName) # ""
  /\ fetchOk

\* limit: the limit field of the arguments; time: info.time of the document
\* that npmFetch.json resolves to
NpmCallTool(req, limit, fetchOk, time) ==
  /\ Serving("npm")
  /\ ~ReadsHistory(req, fetchOk) => limit = NoLimit /\ time = RegistryTime(1)
  /\ LET h == NpmHandle(req, fetchOk) IN
       npmLast' = [req |-> req, resp |-> h.resp, calls |-> h.calls]
  /\ npmHist' = IF ReadsHistory(req, fetchOk)
                  THEN History(TRUE, limit, time, ReleaseVersions(time, ValidLimit(limit)))
                  ELSE NoHistory
  /\ listing' = NoListing
  /\ UNCHANGED <<procVars, memVars, ghVars, slackVars>>

\* -------------------------------------------------------- github-server
GhToolNames == {"create_repository", "create_commit", "create_pull_request"}

\* inputSchema.required of each tool
GhRequired(name) ==
  CASE name = "create_repository" -> {"name"}
    [] name = "create_commit" -> {"repo", "path", "content", "message"}
    [] name = "create_pull_request" -> {"repo", "title", "head"}
    [] OTHER -> {}

\* missing: the one required field the caller left out, or "none"
GhRequest(name, hasArgs, missing) == [name |-> name, hasArgs |-> hasArgs, missing |-> missing]

GhRequests ==
  {GhRequest(n, FALSE, "none") : n \in GhToolNames \cup {UnknownTool}}
  \cup UNION {{GhRequest(n, TRUE, m) : m \in {"none"} \cup GhRequired(n)} : n \in GhToolNames}
  \cup {GhRequest(UnknownTool, TRUE, "none")}

NoGhRequest == GhRequest("none", FALSE, "none")

\* repository full names ("owner/name") and the records GitHub can return for one
Repos == {"owner/repo" \o ToString(i) : i \in 1..NumRepos}
Records == {"record" \o ToString(i) : i \in 1..NumRecords}

\* the request URI after uri.match(/^github:\/\/repo\/([^/]+\/[^/]+)$/)
Uri(match, fullName) == [match |-> match, fullName |-> fullName]
ReadUris == {Uri(TRUE, r) : r \in Repos} \cup {Uri(FALSE, Undefined)}
NoUri == Uri(FALSE, Undefined)

\* what a resources response carries: the listed names, or one repository's record
ResText(tag, names, fullName, record) ==
  [tag |-> tag, names |-> names, fullName |-> fullName, record |-> record]

\* received: per repository the record an outbound call of the request
\* resolved with, NoEntry where none did
NoReceived == [r \in Repos |-> NoEntry]
ResEvent(kind, uri, resp, calls, received) ==
  [kind |-> kind, uri |-> uri, resp |-> resp, calls |-> calls, received |-> received]
NoResEvent ==
  ResEvent("none", NoUri, Returned(ResText("", {}, Undefined, NoEntry)), <<>>, NoReceived)

\* a create_commit that moves the branch before the commit exists
GhCallsRefFirst(name) ==
  CASE name = "create_repository" -> <<"repos.createForAuthenticatedUser">>
    [] name = "create_commit" ->
         <<"git.getRef", "git.createBlob", "git.createTree", "git.updateRef", "git.createCommit">>
    [] name = "create_pull_request" -> <<"pulls.create">>
    [] OTHER -> <<>>

\* the octokit calls of a tool, in program order
GhCalls(name) ==
  CASE name = "create_repository" -> <<"repos.createForAuthenticatedUser">>
    [] name = "create_commit" ->
         <<"git.getRef", "git.createBlob", "git.createTree", "git.createCommit", "git.updateRef">>
    [] name = "create_pull_request" -> <<"pulls.create">>
    [] OTHER -> <<>>

GhFailureTag(name) ==
  CASE name = "create_repository" -> "Failed to create repository"
    [] name = "create_commit" -> "Failed to create commit"
    [] OTHER -> "Failed to create pull request"

\* The CallToolRequestSchema handler of github-server.  failAt = 0: every
\* octokit call resolves; failAt = i: the i-th call rejects.
GhHandle(req, failAt) ==
  LET calls == GhCalls(req.name)
      typeError == [resp |-> Thrown("TypeError", Text("cannot read property", "", "", EmptyMap)),
                    calls |-> <<>>]
      internal(n) == [resp |-> Thrown("InternalError", Text(GhFailureTag(req.name), "", "", EmptyMap)),
                      calls |-> SubSeq(calls, 1, n)]
  IN
  IF req.name \notin GhToolNames
    THEN [resp |-> Thrown("MethodNotFound", Text("unknown tool", "", "", EmptyMap)), calls |-> <<>>]
  ELSE IF ~req.hasArgs THEN typeError
  ELSE IF req.missing = "repo" THEN typeError           \* repo.split('/') of undefined
  ELSE IF req.missing = "content" THEN internal(1)      \* Buffer.from(undefined) after getRef
  ELSE IF failAt = 0
    THEN [resp |-> Returned(Text("created", req.name, "", EmptyMap)), calls |-> calls]
    ELSE internal(failAt)

GhCallTool(req, failAt) ==
  /\ Serving("github")
  /\ failAt \in 0..Len(GhCalls(req.name))
  /\ LET h == GhHandle(req, failAt) IN
       ghLast' = [req |-> req, resp |-> h.resp, calls |-> h.calls]
  /\ listing' = NoListing
  /\ ghRes' = NoResEvent
  /\ UNCHANGED <<procVars, memVars, npmVars, slackVars, repoCache>>

\* for (const repo of repos) repoCache[repo.full_name] = repo, written so that
\* a name that is already cached keeps its old record
CachedAfterListKeepingOld(cache, page) ==
  [r \in Repos |-> IF cache[r] # NoEntry THEN cache[r] ELSE page[r]]

\* for (const repo of repos) repoCache[repo.full_name] = repo
CachedAfterList(cache, page) ==
  [r \in Repos |-> IF page[r] # NoEntry THEN page[r] ELSE cache[r]]

\* The ListResourcesRequestSchema handler.  page: what
\* repos.listForAuthenticatedUser resolves to, per repository its record or
\* NoEntry when it is not among the ten most recently updated.
ListResources(ok, page) ==
  /\ Serving("github")
  /\ ~ok => page = NoReceived
  /\ IF ok
       THEN /\ repoCache' = CachedAfterList(repoCache, page)
            /\ ghRes' = ResEvent("list", NoUri,
                                  Returned(ResText("resources", {r \in Repos : page[r] # NoEntry},
                                                   Undefined, NoEntry)),
                                  <<"repos.listForAuthenticatedUser">>, page)
       ELSE /\ repoCache' = repoCache
            /\ ghRes' = ResEvent("list", NoUri,
                                  Thrown("InternalError",
                                         ResText("Failed to list repositories", {}, Undefined, NoEntry)),
                                  <<"repos.listForAuthenticatedUser">>, NoReceived)
  /\ ghLast' = NoCallEvent(NoGhRequest)
  /\ listing' = NoListing
  /\ UNCHANGED <<procVars, memVars, npmVars, slackVars>>

\* The ReadResourceRequestSchema handler.  ok, record: how repos.get resolves
\* when the handler calls it.
ReadResource(uri, ok, record) ==
  /\ Serving("github")
  /\ IF ~uri.match
       THEN /\ repoCache' = repoCache
            /\ ghRes' = ResEvent("read", uri,
                                  Thrown("InvalidRequest",
                                         ResText("Invalid repository URI", {}, Undefined, NoEntry)),
                                  <<>>, NoReceived)
     ELSE IF repoCache[uri.fullName] # NoEntry
       THEN /\ repoCache' = repoCache
            /\ ghRes' = ResEvent("read", uri,
                                  Returned(ResText("contents", {}, uri.fullName,
                                                   repoCache[uri.fullName])),
                                  <<>>, NoReceived)
     ELSE IF ok
       THEN /\ repoCache' = [repoCache EXCEPT ![uri.fullName] = record]
            /\ ghRes' = ResEvent("read", uri,
                                  Returned(ResText("contents", {}, uri.fullName, record)),
                                  <<"repos.get">>, [NoReceived EXCEPT ![uri.fullName] = record])
       ELSE /\ repoCache' = repoCache
            /\ ghRes' = ResEvent("read", uri,
                                  Thrown("InternalError",
                                         ResText("Failed to get repository", {}, Undefined, NoEntry)),
                                  <<"repos.get">>, NoReceived)
  /\ ghLast' = NoCallEvent(NoGhRequest)
  /\ listing' = NoListing
  /\ UNCHANGED <<procVars, memVars, npmVars, slackVars>>


\* ---------------------------------------------------------------- slack
NumChannels == 2

Slots == 1..MaxInFlight
Channels == {"C" \o ToString(i) : i \in 1..NumChannels}
\* the Slack workspace: which channels are private (every second one)
PrivateChannels == {"C" \o ToString(i) : i \in {j \in 1..NumChannels : j % 2 = 0}}

SlackToolNames == {"send_message", "list_channels", "list_users", "get_latest_message"}
\* the tools whose service method starts with ensureChannelAccess(args.channel)
ChannelScoped == {"send_message", "get_latest_message"}

\* the non-optional fields of the zod schema of each tool
SlackRequired(name) ==
  CASE name = "send_message" -> {"channel", "text"}
    [] name = "get_latest_message" -> {"channel"}
    [] OTHER -> {}

\* missing: the one required field the caller left out, or "none"
SlackRequest(name, hasArgs, missing, channel) ==
  [name |-> name, hasArgs |-> hasArgs, missing |-> missing, channel |-> channel]

SlackRequests ==
  {SlackRequest(n, FALSE, "none", Undefined) : n \in SlackToolNames \cup {UnknownTool}}
  \cup {SlackRequest(n, TRUE, "none", Undefined) : n \in {"list_channels", "list_users", UnknownTool}}
  \cup {SlackRequest(n, TRUE, "none", c) : n \in ChannelScoped, c \in Channels}
  \cup {SlackRequest(n, TRUE, "channel", Undefined) : n \in ChannelScoped}
  \cup {SlackRequest("send_message", TRUE, "text", c) : c \in Channels}

\* an external call (or the settle wait) and how it came back: "ok",
\* "rejected" (the promise rejected), "not ok" (a response with ok: false), or
\* an ok response that lacks a field
Called(call, outcome) == [call |-> call, outcome |-> outcome]
Calls(log) == [k \in 1..Len(log) |-> log[k].call]

\* One invocation whose effect is running.  pc: the call it is suspended on;
\* log: the external calls and waits it has made, in order; chan: what
\* conversations.info said of the channel; mem: what conversations.members
\* said of the bot; during: it was accepted while another invocation was in
\* its settle wait, and no settle wait has elapsed since.
Run(pc, tool, channel, log, chan, mem) ==
  [pc |-> pc, tool |-> tool, channel |-> channel, log |-> log, chan |-> chan, mem |-> mem,
   during |-> \E k \in DOMAIN inflight : inflight[k].pc = "sleep"]
Idle ==
  [pc |-> "idle", tool |-> "none", channel |-> Undefined, log |-> <<>>, chan |-> "none",
   mem |-> "none", during |-> FALSE]

\* an invocation with the outcome the handler produced for it
Finished(req, run, resp) ==
  [req |-> req, log |-> run.log, chan |-> run.chan, mem |-> run.mem, during |-> run.during,
   resp |-> resp]
NoSlackRequest == SlackRequest("none", FALSE, "none", Undefined)
NoRun == Finished(NoSlackRequest, Idle, Returned(NoText))
\* the request a running invocation was started for (it passed Schema.parse)
RequestOf(run) == SlackRequest(run.tool, TRUE, "none", run.channel)

\* handleResult, rejection arm: `Slack API error: ${error.message}`, isError
SlackError(msg) == ReturnedError(Text("Slack API error", msg, "", EmptyMap))
\* handleResult, success arm: JSON.stringify(result, null, 2)
SlackResult(tool) == Returned(Text("json result", tool, "", EmptyMap))
\* response.error of an ok:false response, thrown by handleSlackResponse
UpstreamError == "response.error"

\* the first free slot (slots have no identity in the program)
FreeSlot == CHOOSE i \in Slots : inflight[i].pc = "idle" /\ \A j \in Slots : j < i => inflight[j].pc # "idle"

Busy == {i \in Slots : inflight[i].pc # "idle"}

\* an adapter that skips the inspection of a channel it joined in an earlier run
StartPcRemembering(req) ==
  IF req.name \in ChannelScoped /\ membership[req.channel] # "by adapter" THEN "auth" ELSE "op"

\* an adapter that runs ensureChannelAccess in front of every tool
StartPcAlwaysReconciles(req) == "auth"

\* where the service method of a tool starts: sendMessage and getLatestMessage
\* yield ensureChannelAccess(args.channel) first, which keeps nothing between
\* invocations; listChannels and listUsers go straight to their API call
StartPc(req) == IF req.name \in ChannelScoped THEN "auth" ELSE "op"

\* CallToolRequestSchema handler up to handleResult(...): the switch on the
\* tool name, Schema.parse(request.params.arguments), and the effect started.
\* limit: how many invocations the client lets overlap.
SlackCallTool(req, limit) ==
  /\ Serving("slack")
  /\ IF req.name \notin SlackToolNames
       THEN /\ slackDone' = Finished(req, Idle,
                                     Thrown("MethodNotFound", Text("unknown tool", req.name, "", EmptyMap)))
            /\ UNCHANGED inflight
     ELSE IF ~req.hasArgs \/ req.missing # "none"
       THEN /\ slackDone' = Finished(req, Idle,
                                     Thrown("ZodError", Text("required", req.missing, "", EmptyMap)))
            /\ UNCHANGED inflight
     ELSE /\ Cardinality(Busy) < limit
          /\ inflight' = [inflight EXCEPT ![FreeSlot] =
               Run(StartPc(req), req.name, req.channel, <<>>, "none", "none")]
          /\ slackDone' = NoRun
  /\ listing' = NoListing
  /\ UNCHANGED <<procVars, memVars, npmVars, ghVars, membership>>

\* a failure that nobody turns into a response: the invocation stays pending
SlackFailPending(i, call, outcome, msg) ==
  /\ inflight' = [inflight EXCEPT ![i] =
       [@ EXCEPT !.log = Append(@, Called(call, outcome)), !.pc = "lost"]]
  /\ slackDone' = NoRun

\* the effect of slot i ends in a failure or a defect after the call `call`
SlackFail(i, call, outcome, msg) ==
  /\ slackDone' = Finished(RequestOf(inflight[i]),
                           [inflight[i] EXCEPT !.log = Append(@, Called(call, outcome))],
                           SlackError(msg))
  /\ inflight' = [inflight EXCEPT ![i] = Idle]

\* slot i goes on to wait for its next call
SlackGo(i, call, outcome, pc, chan, mem) ==
  /\ inflight' = [inflight EXCEPT ![i] =
       [@ EXCEPT !.log = Append(@, Called(call, outcome)), !.pc = pc, !.chan = chan, !.mem = mem]]
  /\ slackDone' = NoRun

CallOutcomes == {"ok", "rejected", "not ok"}

\* auth.test without the bot user id check
AuthTestUnchecked(i, outcome) ==
  /\ Serving("slack")
  /\ inflight[i].pc = "auth"
  /\ CASE outcome = "rejected" -> SlackFail(i, "auth.test", outcome, "Auth test failed")
       [] outcome = "not ok" -> SlackFail(i, "auth.test", outcome, UpstreamError)
       [] OTHER -> SlackGo(i, "auth.test", outcome, "info", "none", "none")
  /\ listing' = NoListing
  /\ UNCHANGED <<procVars, memVars, npmVars, ghVars, membership>>

\* ensureChannelAccess: api.client.auth.test() and the bot user id check
AuthTest(i, outcome) ==
  /\ Serving("slack")
  /\ inflight[i].pc = "auth"
  /\ CASE outcome = "rejected" -> SlackFail(i, "auth.test", outcome, "Auth test failed")
       [] outcome = "not ok" -> SlackFail(i, "auth.test", outcome, UpstreamError)
       [] outcome = "no user id" -> SlackFail(i, "auth.test", outcome, "Bot user ID not found")
       [] OTHER -> SlackGo(i, "auth.test", outcome, "info", "none", "none")
  /\ listing' = NoListing
  /\ UNCHANGED <<procVars, memVars, npmVars, ghVars, membership>>

\* a conversations.info whose response is used without handleSlackResponse
ConversationsInfoUnchecked(i, outcome) ==
  /\ Serving("slack")
  /\ inflight[i].pc = "info"
  /\ CASE outcome = "rejected" -> SlackFail(i, "conversations.info", outcome, "Channel info failed")
       [] outcome \in {"no channel", "not ok"} ->
            SlackGo(i, "conversations.info", outcome, "members", "missing", "none")
       [] OTHER -> SlackGo(i, "conversations.info", outcome, "members",
                           IF inflight[i].channel \in PrivateChannels THEN "private" ELSE "public",
                           "none")
  /\ listing' = NoListing
  /\ UNCHANGED <<procVars, memVars, npmVars, ghVars, membership>>

\* ensureChannelAccess: api.client.conversations.info({ channel })
ConversationsInfo(i, outcome) ==
  /\ Serving("slack")
  /\ inflight[i].pc = "info"
  /\ CASE outcome = "rejected" -> SlackFail(i, "conversations.info", outcome, "Channel info failed")
       [] outcome = "not ok" -> SlackFail(i, "conversations.info", outcome, UpstreamError)
       [] outcome = "no channel" -> SlackGo(i, "conversations.info", outcome, "members", "missing", "none")
       [] OTHER -> SlackGo(i, "conversations.info", outcome, "members",
                           IF inflight[i].channel \in PrivateChannels THEN "private" ELSE "public",
                           "none")
  /\ listing' = NoListing
  /\ UNCHANGED <<procVars, memVars, npmVars, ghVars, membership>>

\* membership: "no", "from before" (a member when the adapter started or added
\* by somebody else), "by adapter" (a join or invite of this adapter succeeded)
IsMember(c) == membership[c] # "no"

\* a membership test without the negation: joins whenever a list came back
AfterMembersAlwaysJoins(i, outcome, mem) ==
  IF mem \in {"absent", "member"} /\ inflight[i].chan # "missing"
    THEN SlackGo(i, "conversations.members", outcome, "join", inflight[i].chan, mem)
    ELSE SlackGo(i, "conversations.members", outcome, "op", inflight[i].chan, mem)

\* where ensureChannelAccess goes after the members response (line 129-132)
AfterMembers(i, outcome, mem) ==
  IF mem = "absent"
    THEN IF inflight[i].chan = "missing"
           THEN /\ slackDone' = Finished(RequestOf(inflight[i]), [inflight[i] EXCEPT
                                   !.log = Append(@, Called("conversations.members", outcome)),
                                   !.mem = mem],
                                 SlackError("Channel information not found"))
                /\ inflight' = [inflight EXCEPT ![i] = Idle]
           ELSE SlackGo(i, "conversations.members", outcome, "join", inflight[i].chan, mem)
    ELSE SlackGo(i, "conversations.members", outcome, "op", inflight[i].chan, mem)

\* ensureChannelAccess: api.client.conversations.members({ channel })
ConversationsMembers(i, outcome) ==
  /\ Serving("slack")
  /\ inflight[i].pc = "members"
  /\ CASE outcome = "rejected" -> SlackFail(i, "conversations.members", outcome, "Get members failed")
       [] outcome = "not ok" -> SlackFail(i, "conversations.members", outcome, UpstreamError)
       [] outcome = "no members" -> AfterMembers(i, outcome, "unknown")
       [] OTHER -> AfterMembers(i, outcome, IF IsMember(inflight[i].channel) THEN "member" ELSE "absent")
  /\ listing' = NoListing
  /\ UNCHANGED <<procVars, memVars, npmVars, ghVars, membership>>

\* the membership call chosen by is_private (line 134-141)
\* an adapter that self-joins whatever the channel is
JoinCallAlwaysJoins(chan) == "conversations.join"

JoinCall(chan) == IF chan = "private" THEN "conversations.invite" ELSE "conversations.join"

\* a join that returns to the caller without the settle wait
JoinOrInviteNoWait(i, outcome) ==
  /\ Serving("slack")
  /\ inflight[i].pc = "join"
  /\ LET call == JoinCall(inflight[i].chan) IN
     CASE outcome = "rejected" -> SlackFail(i, call, outcome, "Join channel failed") /\ UNCHANGED membership
       [] outcome = "not ok" -> SlackFail(i, call, outcome, UpstreamError) /\ UNCHANGED membership
       [] OTHER -> /\ SlackGo(i, call, outcome, "op", inflight[i].chan, inflight[i].mem)
                   /\ membership' = [membership EXCEPT ![inflight[i].channel] = "by adapter"]
  /\ listing' = NoListing
  /\ UNCHANGED <<procVars, memVars, npmVars, ghVars>>

\* ensureChannelAccess: the invite or join, and handleSlackResponse(joinResult)
JoinOrInvite(i, outcome) ==
  /\ Serving("slack")
  /\ inflight[i].pc = "join"
  /\ LET call == JoinCall(inflight[i].chan) IN
     CASE outcome = "rejected" -> SlackFail(i, call, outcome, "Join channel failed") /\ UNCHANGED membership
       [] outcome = "not ok" -> SlackFail(i, call, outcome, UpstreamError) /\ UNCHANGED membership
       [] OTHER -> /\ SlackGo(i, call, outcome, "sleep", inflight[i].chan, inflight[i].mem)
                   /\ membership' = [membership EXCEPT ![inflight[i].channel] = "by adapter"]
  /\ listing' = NoListing
  /\ UNCHANGED <<procVars, memVars, npmVars, ghVars>>

\* ensureChannelAccess: Effect.sleep(Duration.millis(2000)) has elapsed
SettleWait(i) ==
  /\ Serving("slack")
  /\ inflight[i].pc = "sleep"
  /\ inflight' = [j \in Slots |->
       IF j = i THEN [inflight[i] EXCEPT !.log = Append(@, Called("sleep", "ok")), !.pc = "op"]
       ELSE IF inflight[j].pc = "idle" THEN inflight[j]
       ELSE [inflight[j] EXCEPT !.during = FALSE]]
  /\ slackDone' = NoRun
  /\ listing' = NoListing
  /\ UNCHANGED <<procVars, memVars, npmVars, ghVars, membership>>

\* the Slack call of the tool itself
OperationCall(tool) ==
  CASE tool = "send_message" -> "chat.postMessage"
    [] tool = "list_channels" -> "conversations.list"
    [] tool = "list_users" -> "users.list"
    [] OTHER -> "conversations.history"

OperationFailed(tool) ==
  CASE tool = "send_message" -> "Send message failed"
    [] tool = "list_channels" -> "List channels failed"
    [] tool = "list_users" -> "List users failed"
    [] OTHER -> "Get latest message failed"

\* sendMessage / listChannels / listUsers / getLatestMessage after the
\* reconciliation, and handleResult folding the outcome into a response
Operation(i, outcome) ==
  /\ Serving("slack")
  /\ inflight[i].pc = "op"
  /\ outcome = "no ts" => inflight[i].tool = "send_message"
  /\ LET tool == inflight[i].tool
         call == OperationCall(tool) IN
     CASE outcome = "rejected" -> SlackFail(i, call, outcome, OperationFailed(tool))
       [] outcome = "not ok" -> SlackFail(i, call, outcome, UpstreamError)
       [] outcome = "no ts" -> SlackFail(i, call, outcome, "Invalid response from Slack API")
       [] OTHER -> /\ slackDone' = Finished(RequestOf(inflight[i]), [inflight[i] EXCEPT
                                               !.log = Append(@, Called(call, outcome))],
                                            SlackResult(tool))
                   /\ inflight' = [inflight EXCEPT ![i] = Idle]
  /\ listing' = NoListing
  /\ UNCHANGED <<procVars, memVars, npmVars, ghVars, membership>>

\* the Slack workspace: somebody removes the bot from a channel
BotRemoved(c) ==
  /\ Serving("slack")
  /\ IsMember(c)
  /\ membership' = [membership EXCEPT ![c] = "no"]
  /\ slackDone' = NoRun
  /\ listing' = NoListing
  /\ UNCHANGED <<procVars, memVars, npmVars, ghVars, inflight>>

\* ------------------------------------------------------------- list_tools
\* the tools literal of each ListToolsRequestSchema handler
MemCatalogue ==
  {Tool("set_value", {"key", "value"}), Tool("get_value", {"key"}),
   Tool("delete_value", {"key"}), Tool("list_values", {})}

NpmCatalogue ==
  {Tool("get_package_info", {"packageName"}), Tool("get_release_history", {"packageName"}),
   Tool("analyze_dependencies", {"packageName"})}

GhCatalogue ==
  {Tool("create_repository", {"name"}),
   Tool("create_commit", {"repo", "path", "content", "message"}),
   Tool("create_pull_request", {"repo", "title", "head"})}

SlackCatalogue ==
  {Tool("send_message", {"channel", "text"}), Tool("list_channels", {}),
   Tool("list_users", {}), Tool("get_latest_message", {"channel"})}

\* a catalogue handler that also starts the adapter's data afresh
ListToolsStepResetting(s, tools) ==
  /\ Serving(s)
  /\ listing' = Listing(tools)
  /\ slackDone' = NoRun
  /\ store' = EmptyMap
  /\ inflight' = [i \in Slots |-> Idle]
  /\ UNCHANGED <<procVars, memLast, memPrev, memRunning, npmVars, ghVars, membership>>

\* a ListToolsRequestSchema handler: async () => ({ tools: [...] })
ListToolsStep(s, tools) ==
  /\ Serving(s)
  /\ listing' = Listing(tools)
  /\ slackDone' = NoRun
  /\ UNCHANGED <<procVars, memVars, npmVars, ghVars, inflight, membership>>

MemListTools == ListToolsStep("memory", MemCatalogue)
NpmListTools == ListToolsStep("npm", NpmCatalogue)
GhListTools == ListToolsStep("github", GhCatalogue)
SlackListTools == ListToolsStep("slack", SlackCatalogue)

\* what the adapters hold when the module starts to load
Fresh ==
  /\ store = EmptyMap
  /\ memLast = NoEvent
  /\ memPrev = NoRequest
  /\ memRunning = [i \in MemSlots |-> NotRunning]
  /\ npmLast = NoCallEvent(NoNpmRequest)
  /\ npmHist = NoHistory
  /\ ghLast = NoCallEvent(NoGhRequest)
  /\ repoCache = NoReceived
  /\ ghRes = NoResEvent
  /\ inflight = [i \in Slots |-> Idle]
  /\ slackDone = NoRun
  /\ listing = NoListing
  /\ membership \in IF server = "slack" THEN [Channels -> {"no", "from before"}]
                                          ELSE {[c \in Channels |-> "no"]}

\* memory-store and npm-info read no variable of the environment
Init ==
  /\ server \in Servers
  /\ credential \in IF RequiresCredential(server) THEN {"set", "empty", "unset"} ELSE {"unset"}
  /\ proc = "loading"
  /\ Fresh

\* Spec: the client sends a request once the previous one is answered.  A
\* request reaches the handlers of the adapter that is serving.
Next ==
  \/ LoadModule
  \/ \E ok \in BOOLEAN : Connect(ok)
  \/ MemListTools
  \/ NpmListTools
  \/ GhListTools
  \/ SlackListTools
  \/ /\ Serving("memory")
     /\ \E req \in MemRequests : MemCallTool(req)
  \/ /\ Serving("npm")
     /\ \E req \in NpmRequests, fetchOk \in BOOLEAN :
          \E limit \in IF ReadsHistory(req, fetchOk) THEN Limits ELSE {NoLimit},
             time \in IF ReadsHistory(req, fetchOk) THEN RegistryTimes ELSE {RegistryTime(1)} :
            NpmCallTool(req, limit, fetchOk, time)
  \/ /\ Serving("github")
     /\ \E req \in GhRequests, failAt \in 0..5 : GhCallTool(req, failAt)
  \/ /\ Serving("github")
     /\ \E ok \in BOOLEAN, page \in [Repos -> Records \cup {NoEntry}] : ListResources(ok, page)
  \/ /\ Serving("github")
     /\ \E uri \in ReadUris, ok \in BOOLEAN, record \in Records : ReadResource(uri, ok, record)
  \/ \E req \in SlackRequests : SlackCallTool(req, 1)
  \/ \E i \in Slots, o \in CallOutcomes \cup {"no user id"} : AuthTest(i, o)
  \/ \E i \in Slots, o \in CallOutcomes \cup {"no channel"} : ConversationsInfo(i, o)
  \/ \E i \in Slots, o \in CallOutcomes \cup {"no members"} : ConversationsMembers(i, o)
  \/ \E i \in Slots, o \in CallOutcomes : JoinOrInvite(i, o)
  \/ \E i \in Slots : SettleWait(i)
  \/ \E i \in Slots, o \in CallOutcomes \cup {"no ts"} : Operation(i, o)
  \/ \E c \in Channels : BotRemoved(c)

Spec == Init /\ [][Next]_vars

\* OverlapSpec: the Slack adapter with requests that arrive while earlier
\* invocations are suspended on a call or in the settle wait.
OverlapInit ==
  /\ server = "slack"
  /\ credential = "set"
  /\ proc = "serving"
  /\ Fresh

OverlapNext ==
  \/ \E req \in SlackRequests : SlackCallTool(req, MaxInFlight)
  \/ \E i \in Slots, o \in CallOutcomes \cup {"no user id"} : AuthTest(i, o)
  \/ \E i \in Slots, o \in CallOutcomes \cup {"no channel"} : ConversationsInfo(i, o)
  \/ \E i \in Slots, o \in CallOutcomes \cup {"no members"} : ConversationsMembers(i, o)
  \/ \E i \in Slots, o \in CallOutcomes : JoinOrInvite(i, o)
  \/ \E i \in Slots : SettleWait(i)
  \/ \E i \in Slots, o \in CallOutcomes \cup {"no ts"} : Operation(i, o)
  \/ \E c \in Channels : BotRemoved(c)

OverlapSpec == OverlapInit /\ [][OverlapNext]_vars

\* LiveSpec: the Slack adapter of Spec, with every call it is suspended on
\* coming back (resolved, rejected or ok: false) and the timer of the settle
\* wait firing.
Progress(i) ==
  \/ \E o \in CallOutcomes \cup {"no user id"} : AuthTest(i, o)
  \/ \E o \in CallOutcomes \cup {"no channel"} : ConversationsInfo(i, o)
  \/ \E o \in CallOutcomes \cup {"no members"} : ConversationsMembers(i, o)
  \/ \E o \in CallOutcomes : JoinOrInvite(i, o)
  \/ SettleWait(i)
  \/ \E o \in CallOutcomes \cup {"no ts"} : Operation(i, o)

LiveInit == Init /\ server = "slack"

LiveNext ==
  \/ LoadModule
  \/ \E ok \in BOOLEAN : Connect(ok)
  \/ SlackListTools
  \/ \E req \in SlackRequests : SlackCallTool(req, 1)
  \/ \E i \in Slots : Progress(i)
  \/ \E c \in Channels : BotRemoved(c)

LiveSpec == LiveInit /\ [][LiveNext]_vars /\ \A i \in Slots : WF_vars(Progress(i))

\* StoreOverlapSpec: the key-value adapter with its handler taken in two
\* steps, requests being entered in any order.
StoreOverlapInit ==
  /\ server = "memory"
  /\ credential = "unset"
  /\ proc = "serving"
  /\ Fresh

StoreOverlapNext ==
  \/ \E req \in MemRequests : MemBegin(req)
  \/ \E i \in MemSlots : MemCommit(i)

StoreOverlapSpec == StoreOverlapInit /\ [][StoreOverlapNext]_vars

\* ==================================================================== claims
\* the step answered a call_tool request (not a list_tools request)
CallToolStep == ~listing'.given

\* a memory-store request that carries its arguments object
IsMemCall(req, name) == req.name = name /\ req.hasArgs

\* C6: store round-trip, after any prior sequence of operations: Set(k,v)
\* immediately followed by Get(k) returns v; Delete(k) immediately followed by
\* Get(k) yields the key-not-found failure; List() immediately after Set(k,v)
\* includes the entry k -> v.
C6_StoreRoundTrip ==
  /\ \A k \in Keys, v \in Vals :
        (memPrev = MemRequest("set_value", TRUE, k, v) /\ IsMemCall(memLast.req, "get_value")
           /\ memLast.req.key = k)
        => /\ memLast.resp.kind = "returned"
           /\ memLast.resp.text = Text("json string", "", v, EmptyMap)
  /\ \A k \in Keys :
        (IsMemCall(memPrev, "delete_value") /\ memPrev.key = k
           /\ IsMemCall(memLast.req, "get_value") /\ memLast.req.key = k)
        => memLast.resp.text = KeyNotFound(k)
  /\ \A k \in Keys, v \in Vals :
        (memPrev = MemRequest("set_value", TRUE, k, v) /\ memLast.req.name = "list_values")
        => /\ memLast.resp.kind = "returned"
           /\ memLast.resp.text.tag = "json object"
           /\ memLast.resp.text.m[k] = v

\* a Get answered with the value that the Set before it overwrote an older one with
C6_Witness ==
  \E k \in Keys, v \in Vals :
    /\ memPrev = MemRequest("set_value", TRUE, k, v)
    /\ IsMemCall(memLast.req, "get_value") /\ memLast.req.key = k
    /\ memLast.resp = Returned(Text("json string", "", v, EmptyMap))
    /\ \E j \in Keys : j # k /\ store[j] \in Vals

\* C9: Delete(key) of an absent key fails with the key-not-found failure and
\* leaves the store exactly as it was; Delete(key) of a present key succeeds,
\* removes exactly that key and leaves every other entry unchanged.
C9_DeleteStep ==
  \A k \in KeySpace :
    (IsMemCall(memLast'.req, "delete_value") /\ memLast'.req.key = k)
    => IF store[k] = NoEntry
         THEN /\ memLast'.resp.kind = "thrown"
              /\ memLast'.resp.text = KeyNotFound(k)
              /\ store' = store
         ELSE /\ memLast'.resp = Returned(Text("deleted", k, "", EmptyMap))
              /\ store' = [store EXCEPT ![k] = NoEntry]

C9_Delete == [][CallToolStep => C9_DeleteStep]_vars

\* a present key was deleted while another entry stayed in the store
C9_Witness ==
  /\ IsMemCall(memLast.req, "delete_value")
  /\ memLast.resp.kind = "returned"
  /\ store[memLast.req.key] = NoEntry
  /\ \E j \in Keys : store[j] \in Vals

\* C10: Set(key,value) succeeds in every reachable store state, whether or not
\* the key exists; afterwards the key maps to the new value and every other
\* key's value is unchanged.
C10_SetStep ==
  \A k \in Keys, v \in Vals :
    memLast'.req = MemRequest("set_value", TRUE, k, v)
    => /\ memLast'.resp = Returned(Text("saved", k, v, EmptyMap))
       /\ store'[k] = v
       /\ \A j \in KeySpace : j # k => store'[j] = store[j]

C10_Set == [][CallToolStep => C10_SetStep]_vars

\* a Set replaced a different value that the key held before
C10_Witness ==
  \E k \in Keys, v \in Vals :
    /\ memLast.req = MemRequest("set_value", TRUE, k, v)
    /\ memPrev.name = "set_value" /\ memPrev.hasArgs /\ memPrev.key = k
    /\ memPrev.value \in Vals \ {v}
    /\ store[k] = v

\* ------------------------------------------------------- slack claims
IsPrefix(a, b) == Len(a) <= Len(b) /\ a = SubSeq(b, 1, Len(a))
Has(log, call) == \E k \in 1..Len(log) : log[k].call = call

\* the calls of a send to a channel the bot is found absent from
FullSendLog(chan) ==
  <<"auth.test", "conversations.info", "conversations.members", JoinCall(chan), "sleep",
    "chat.postMessage">>

\* the running or just finished invocations of the Slack adapter
SlackRuns ==
  {[req |-> RequestOf(inflight[i]), log |-> inflight[i].log, chan |-> inflight[i].chan,
    mem |-> inflight[i].mem, finished |-> FALSE, resp |-> Returned(NoText)] : i \in Busy}
  \cup {[req |-> slackDone.req, log |-> slackDone.log, chan |-> slackDone.chan,
         mem |-> slackDone.mem, finished |-> TRUE, resp |-> slackDone.resp]}

InspectionCalls == {"conversations.info", "conversations.members"}
InspectionFailed(log) ==
  \E k \in 1..Len(log) : log[k].call \in InspectionCalls /\ log[k].outcome \in {"rejected", "not ok"}

\* C2: in a send_message or get_latest_message invocation whose channel
\* inspection fails, chat.postMessage / conversations.history is never called
\* and the response is a Slack API error response.
C2_InspectionFailure ==
  \A r \in SlackRuns :
    (r.req.name \in ChannelScoped /\ InspectionFailed(r.log))
    => /\ ~Has(r.log, OperationCall(r.req.name))
       /\ r.finished
       /\ r.resp.kind = "returned" /\ r.resp.isError
       /\ r.resp.text.tag = "Slack API error"
       /\ r.resp.text.k \in {"Channel info failed", "Get members failed", UpstreamError}

\* conversations.info answered ok: false (channel_not_found) for a read
C2_Witness ==
  /\ slackDone.req.name = "get_latest_message"
  /\ Len(slackDone.log) = 2
  /\ slackDone.log[2] = Called("conversations.info", "not ok")
  /\ slackDone.resp = SlackError(UpstreamError)

MembershipCalls == {"conversations.join", "conversations.invite", "sleep"}

\* C3: an invocation on a channel whose member list already holds the bot
\* makes no join, no invite and no settle wait -- in particular the second of
\* two invocations in sequence.
C3_NoRejoin ==
  \A r \in SlackRuns :
    (r.req.name \in ChannelScoped /\ r.mem = "member")
    => \A k \in 1..Len(r.log) : r.log[k].call \notin MembershipCalls

\* an invocation delivered without a join on a channel that an earlier
\* invocation of this adapter had joined
C3_Witness ==
  /\ slackDone.req.name \in ChannelScoped
  /\ slackDone.mem = "member"
  /\ membership[slackDone.req.channel] = "by adapter"
  /\ Calls(slackDone.log) =
       <<"auth.test", "conversations.info", "conversations.members", OperationCall(slackDone.req.name)>>
  /\ ~slackDone.resp.isError

\* ------------------------------------------------- dispatch claims
\* C4: a call_tool for a tool name outside the registry, with any arguments or
\* none, raises MethodNotFound and has no side effect: store unchanged, no
\* outbound call, no invocation started.
C4_UnknownToolStep ==
  /\ memLast'.req.name = UnknownTool
     => memLast'.resp.code = "MethodNotFound" /\ store' = store
  /\ npmLast'.req.name = UnknownTool
     => npmLast'.resp.code = "MethodNotFound" /\ npmLast'.calls = <<>>
  /\ ghLast'.req.name = UnknownTool
     => ghLast'.resp.code = "MethodNotFound" /\ ghLast'.calls = <<>>
  /\ slackDone'.req.name = UnknownTool
     => /\ slackDone'.resp.code = "MethodNotFound"
        /\ slackDone'.log = <<>> /\ inflight' = inflight /\ membership' = membership

C4_UnknownTool == [][CallToolStep => C4_UnknownToolStep]_vars

\* a memory-store request that leaves out a field its inputSchema requires
MemOmitsRequired(req) ==
  /\ req.name \in {"set_value", "get_value", "delete_value"}
  /\ \/ ~req.hasArgs
     \/ req.key = Undefined
     \/ req.name = "set_value" /\ req.value = Undefined

\* C5: a call_tool for a registered tool that omits a required argument raises
\* InvalidParams naming the field and has no side effect: store unchanged, no
\* outbound call to Slack, the npm registry or GitHub.
C5_MissingArgumentStep ==
  /\ MemOmitsRequired(memLast'.req)
     => memLast'.resp.code = "InvalidParams" /\ store' = store
  /\ (npmLast'.req.name \in NpmToolNames
        /\ (~npmLast'.req.hasArgs \/ npmLast'.req.packageName = Undefined))
     => npmLast'.resp.code = "InvalidParams" /\ npmLast'.calls = <<>>
  /\ (ghLast'.req.name \in GhToolNames /\ (~ghLast'.req.hasArgs \/ ghLast'.req.missing # "none"))
     => /\ ghLast'.resp.code = "InvalidParams" /\ ghLast'.calls = <<>>
        /\ ghLast'.req.missing # "none" => ghLast'.resp.text.k = ghLast'.req.missing
  /\ (slackDone'.req.name \in ChannelScoped
        /\ (~slackDone'.req.hasArgs \/ slackDone'.req.missing # "none"))
     => /\ slackDone'.resp.code = "InvalidParams" /\ slackDone'.log = <<>>
        /\ slackDone'.req.missing # "none" => slackDone'.resp.text.k = slackDone'.req.missing

C5_MissingArgument == [][CallToolStep => C5_MissingArgumentStep]_vars

\* C7: get_value of a key absent from the store returns (does not throw) an
\* error response with isError set and the key-not-found failure, and leaves
\* the store unchanged.
C7_GetMissingStep ==
  \A k \in Keys :
    (IsMemCall(memLast'.req, "get_value") /\ memLast'.req.key = k /\ store[k] = NoEntry)
    => /\ memLast'.resp.kind = "returned"
       /\ memLast'.resp.isError
       /\ memLast'.resp.text = KeyNotFound(k)
       /\ store' = store

C7_GetMissing == [][CallToolStep => C7_GetMissingStep]_vars

\* the "<adapter> error: <message>" text blocks
AdapterErrorTags == {"Slack API error", "NPM API error", "Memory error", "GitHub API error"}

\* a response that is returned, and is an adapter error block if it is an error
FoldedResponse(resp) ==
  /\ resp.kind = "returned"
  /\ resp.isError => resp.text.tag \in AdapterErrorTags

\* C8: every failure of a tool's executor is caught and returned as an
\* "<adapter> error: <message>" response with isError set; for a registered
\* tool called with its required arguments no call_tool handler throws.
C8_FailuresFolded ==
  /\ (memLast.req.name \in MemToolNames /\ ~MemOmitsRequired(memLast.req))
     => FoldedResponse(memLast.resp)
  /\ (npmLast.req.name \in NpmToolNames /\ npmLast.req.hasArgs /\ npmLast.req.packageName \in Packages)
     => FoldedResponse(npmLast.resp)
  /\ (ghLast.req.name \in GhToolNames /\ ghLast.req.hasArgs /\ ghLast.req.missing = "none")
     => FoldedResponse(ghLast.resp)
  /\ (slackDone.req.name \in SlackToolNames /\ slackDone.req.hasArgs /\ slackDone.req.missing = "none")
     => FoldedResponse(slackDone.resp)

\* ---------------------------------------------------------------------------
\* C11: the store is changed only by set_value and delete_value steps; a
\* list_values step never fails, yields the whole current mapping and leaves
\* the store as it was; a get_value step leaves the store as it was.
C11_FrameStep ==
  /\ store' # store => CallToolStep /\ memLast'.req.name \in {"set_value", "delete_value"}
  /\ (CallToolStep /\ memLast'.req.name = "get_value") => store' = store
  /\ (CallToolStep /\ memLast'.req.name = "list_values")
     => /\ store' = store
        /\ memLast'.resp.kind = "returned"
        /\ ~memLast'.resp.isError
        /\ memLast'.listed = store
        /\ memLast'.resp.text.tag = "json object"
        /\ \A k \in KeySpace :
             store[k] # Undefined => memLast'.resp.text.m[k] = store[k]

C11_Frame == [][C11_FrameStep]_vars

\* a list_values right after a get_value, on a store holding every key
C11_Witness ==
  /\ memLast.req.name = "list_values"
  /\ memPrev.name = "get_value"
  /\ \A k \in Keys : store[k] \in Vals
  /\ memLast.listed = store
  /\ memLast.resp.kind = "returned"

\* ---------------------------------------------------------------------------
\* how many entries of a log are the call `call`
CountCalls(log, call) == Cardinality({k \in 1..Len(log) : log[k].call = call})

\* C12: every send_message / get_latest_message invocation runs the
\* reconciliation from its start: its first call is auth.test, it makes
\* auth.test exactly once, and it reaches its own operation only after its
\* own conversations.info and conversations.members, whatever earlier
\* invocations found out about the channel.
C12_FromScratch ==
  \A r \in SlackRuns :
    r.req.name \in ChannelScoped
    => /\ Len(r.log) >= 1 => r.log[1].call = "auth.test"
       /\ CountCalls(r.log, "auth.test") <= 1
       /\ (r.finished /\ r.resp.kind = "returned") => CountCalls(r.log, "auth.test") = 1
       /\ Has(r.log, OperationCall(r.req.name))
          => /\ Len(r.log) >= 4
             /\ SubSeq(Calls(r.log), 1, 3)
                  = <<"auth.test", "conversations.info", "conversations.members">>
             /\ CountCalls(r.log, "conversations.info") = 1
             /\ CountCalls(r.log, "conversations.members") = 1

\* a read on a channel this adapter joined in an earlier invocation: it
\* still asks who the bot is and inspects the channel again
C12_Witness ==
  /\ slackDone.req.name = "get_latest_message"
  /\ slackDone.req.channel \in Channels
  /\ membership[slackDone.req.channel] = "by adapter"
  /\ Calls(slackDone.log)
       = <<"auth.test", "conversations.info", "conversations.members", "conversations.history">>
  /\ slackDone.resp = SlackResult("get_latest_message")

\* ---------------------------------------------------------------------------
\* C13: a Slack or GitHub adapter started without its token never connects
\* its transport and never serves a request: the process is still loading or
\* has ended on the error thrown by the check.
C13_NoCredential ==
  (server \in {"slack", "github"} /\ credential # "set")
  => /\ proc \in {"loading", "threw"}
     /\ listing = NoListing
     /\ ghLast = NoCallEvent(NoGhRequest)
     /\ slackDone = NoRun
     /\ \A i \in Slots : inflight[i] = Idle

\* the module of an adapter without its token has thrown
C13_Witness ==
  /\ server \in {"slack", "github"}
  /\ credential \in {"unset", "empty"}
  /\ proc = "threw"

\* ---------------------------------------------------------------------------
\* the tool names the CallToolRequestSchema handler of each adapter dispatches on
ToolNamesOf(s) ==
  CASE s = "memory" -> MemToolNames
    [] s = "npm" -> NpmToolNames
    [] s = "github" -> GhToolNames
    [] OTHER -> SlackToolNames

\* C14: a list_tools step changes nothing the adapter holds, starts or ends
\* no invocation, makes no outbound call, and returns the same catalogue
\* whatever was handled before: one entry for each tool of the adapter.
C14_ListStep ==
  listing'.given
  => /\ {t.name : t \in listing'.tools} = ToolNamesOf(server)
     /\ Cardinality(listing'.tools) = Cardinality(ToolNamesOf(server))
     /\ listing.given => listing'.tools = listing.tools
     /\ store' = store
     /\ memLast' = memLast
     /\ npmLast' = npmLast
     /\ ghLast' = ghLast
     /\ inflight' = inflight
     /\ membership' = membership
     /\ proc' = proc

C14_ListTools == [][C14_ListStep]_vars

\* the catalogue of the key-value adapter, listed after values were stored
C14_Witness ==
  /\ listing.given
  /\ server = "memory"
  /\ memLast.req.name = "set_value"
  /\ \E k \in Keys : store[k] \in Vals
  /\ Tool("set_value", {"key", "value"}) \in listing.tools

\* ---------------------------------------------------------------------------
\* the calls of ensureChannelAccess and the ways one of them fails
ReconcileCalls ==
  {"auth.test", "conversations.info", "conversations.members", "conversations.join",
   "conversations.invite"}
FailureOutcomes == {"rejected", "not ok", "no user id"}

\* C15: once a step of the reconciliation has failed, the invocation makes
\* no further call: the failed call is the last entry of its log, the
\* operation call is not in it, and the invocation has ended in a Slack API
\* error response. The same holds when the channel record turns out to be
\* missing after conversations.members.
C15_FailedIsFinal ==
  \A r \in SlackRuns :
    r.req.name \in ChannelScoped
    => /\ \A k \in 1..Len(r.log) :
            (r.log[k].call \in ReconcileCalls /\ r.log[k].outcome \in FailureOutcomes)
            => /\ k = Len(r.log)
               /\ ~Has(r.log, OperationCall(r.req.name))
               /\ r.finished
               /\ r.resp.isError
               /\ r.resp.text.tag = "Slack API error"
       /\ (r.finished /\ r.resp = SlackError("Channel information not found"))
          => /\ r.log[Len(r.log)].call = "conversations.members"
             /\ ~Has(r.log, OperationCall(r.req.name))

\* a send whose join was rejected: nothing follows the join
C15_Witness ==
  /\ slackDone.req.name = "send_message"
  /\ Len(slackDone.log) = 4
  /\ slackDone.log[4] = Called("conversations.join", "rejected")
  /\ slackDone.resp = SlackError("Join channel failed")

\* ---------------------------------------------------------------------------
JoinCalls == {"conversations.join", "conversations.invite"}
HasJoin(log) == \E k \in 1..Len(log) : log[k].call \in JoinCalls
\* conversations.members came back ok, with or without a member list
MembersAnswered(log) ==
  \E k \in 1..Len(log) :
    log[k].call = "conversations.members" /\ log[k].outcome \in {"ok", "no members"}

\* C16: after a successful inspection the invocation attempts a join or an
\* invite exactly when the bot id is not among the known members: found in
\* the list, it makes no join and no invite; not found, or no list known, it
\* does not reach its operation without having attempted one.
C16_JoinIffAbsent ==
  \A r \in SlackRuns :
    (r.req.name \in ChannelScoped /\ MembersAnswered(r.log))
    => /\ r.mem = "member" => ~HasJoin(r.log)
       /\ (r.mem # "member" /\ Has(r.log, OperationCall(r.req.name))) => HasJoin(r.log)

\* ---------------------------------------------------------------------------
CountJoins(log) == Cardinality({k \in 1..Len(log) : log[k].call \in JoinCalls})

\* C17: an invocation makes at most one membership-changing call, and
\* exactly one once it has found the bot absent from the members of a channel
\* whose record it holds and has gone on; the call is conversations.invite
\* on a private channel and conversations.join on a public one.
C17_OneJoinByPrivacy ==
  \A r \in SlackRuns :
    r.req.name \in ChannelScoped
    => /\ CountJoins(r.log) <= 1
       /\ \A k \in 1..Len(r.log) :
            /\ r.log[k].call = "conversations.invite" => r.req.channel \in PrivateChannels
            /\ r.log[k].call = "conversations.join" => r.req.channel \notin PrivateChannels
       /\ (r.mem = "absent" /\ r.chan # "missing" /\ (r.finished \/ Len(r.log) >= 4))
          => /\ CountJoins(r.log) = 1
             /\ r.log[4].call \in JoinCalls

\* a read on a private channel the bot was absent from: one invite, no join
C17_Witness ==
  /\ slackDone.req.name = "get_latest_message"
  /\ slackDone.req.channel \in PrivateChannels
  /\ slackDone.mem = "absent"
  /\ Len(slackDone.log) = 6
  /\ slackDone.log[4] = Called("conversations.invite", "ok")
  /\ ~Has(slackDone.log, "conversations.join")
  /\ slackDone.resp = SlackResult("get_latest_message")

\* ---------------------------------------------------------------------------
\* C18: in every invocation a join or invite that succeeded is followed at
\* once by the settle wait, and the invocation has not gone on or ended
\* while that wait is outstanding; a join or invite that failed ends the
\* invocation with no wait; the wait occurs nowhere else.
C18_SettleAfterJoin ==
  \A r \in SlackRuns :
    r.req.name \in ChannelScoped
    => \A k \in 1..Len(r.log) :
         /\ (r.log[k].call \in JoinCalls /\ r.log[k].outcome = "ok")
            => /\ k < Len(r.log) => r.log[k + 1] = Called("sleep", "ok")
               /\ k = Len(r.log) => ~r.finished
         /\ (r.log[k].call \in JoinCalls /\ r.log[k].outcome # "ok")
            => /\ k = Len(r.log)
               /\ r.finished
               /\ ~Has(r.log, "sleep")
         /\ r.log[k].call = "sleep"
            => /\ k > 1
               /\ r.log[k - 1].call \in JoinCalls
               /\ r.log[k - 1].outcome = "ok"

\* a read that joined a public channel, waited, and then fetched the history
C18_Witness ==
  /\ slackDone.req.name = "get_latest_message"
  /\ Len(slackDone.log) = 6
  /\ slackDone.log[4] = Called("conversations.join", "ok")
  /\ slackDone.log[5] = Called("sleep", "ok")
  /\ slackDone.log[6].call = "conversations.history"

\* ---------------------------------------------------------------------------
\* C19: of two invocations in flight at the same time on the same channel,
\* at most one has made a join or an invite.
C19_NoDoubleJoin ==
  \A i, j \in Busy :
    (i # j /\ inflight[i].tool \in ChannelScoped /\ inflight[j].tool \in ChannelScoped
       /\ inflight[i].channel = inflight[j].channel)
    => ~(HasJoin(inflight[i].log) /\ HasJoin(inflight[j].log))

\* ---------------------------------------------------------------------------
\* C20: however the requests to the key-value adapter are entered, at most
\* one handler is between its check and its write, the store it checked is
\* the store it writes to, and its response and the store it leaves are
\* those of the whole operation applied at that moment -- the results are
\* those of the requests taken one after the other in the order they return.
C20_AtomicStep ==
  /\ Cardinality({i \in MemSlots : memRunning'[i].phase = "checked"}) <= 1
  /\ \A i \in MemSlots :
       (memRunning[i].phase = "checked" /\ memRunning'[i].phase = "idle")
       => /\ memRunning[i].snap = store
          /\ memLast'.req = memRunning[i].req
          /\ memLast'.resp = MemHandle(store, memRunning[i].req).resp
          /\ store' = MemHandle(store, memRunning[i].req).store

C20_Atomic == [][C20_AtomicStep]_vars

\* a delete_value that found its key and has not removed it yet, entered
\* after another request was answered
C20_Witness ==
  \E i \in MemSlots :
    /\ memRunning[i].phase = "checked"
    /\ memRunning[i].req.name = "delete_value"
    /\ memRunning[i].req.hasArgs
    /\ memRunning[i].req.key \in Keys
    /\ store[memRunning[i].req.key] \in Vals
    /\ memRunning[i].snap = store

\* ---------------------------------------------------------------------------
\* the next step of the invocation in slot j, whatever its call returns
StepOf(j) ==
  \/ \E o \in CallOutcomes : AuthTest(j, o)
  \/ \E o \in CallOutcomes : ConversationsInfo(j, o)
  \/ \E o \in CallOutcomes : ConversationsMembers(j, o)
  \/ \E o \in CallOutcomes : JoinOrInvite(j, o)
  \/ \E o \in CallOutcomes : Operation(j, o)

\* C21: while an invocation is in its settle wait, a list_tools request can
\* be answered, every call_tool request can be accepted (as long as the
\* client has an invocation to spare), and every other invocation that is
\* not itself waiting can take its next step.
C21_WaitIsLocal ==
  \A i \in Slots :
    inflight[i].pc = "sleep"
    => /\ ENABLED SlackListTools
       /\ Cardinality(Busy) < MaxInFlight
          => \A req \in SlackRequests : ENABLED SlackCallTool(req, MaxInFlight)
       /\ \A j \in Busy : inflight[j].pc # "sleep" => ENABLED StepOf(j)

\* a list_users accepted during the settle wait of a send, and answered
\* while that wait is still outstanding
C21_Witness ==
  /\ slackDone.req.name = "list_users"
  /\ slackDone.during
  /\ slackDone.resp = SlackResult("list_users")
  /\ \E i \in Slots : inflight[i].pc = "sleep" /\ inflight[i].tool = "send_message"

\* ---------------------------------------------------------------------------
UnscopedTools == {"list_channels", "list_users"}

\* what the logs show: an invocation of list_channels or list_users makes
\* its own call and nothing else; an invocation of send_message or
\* get_latest_message starts with auth.test and makes its own call last,
\* right after conversations.members or the settle wait
C22_Logs ==
  \A r \in SlackRuns :
    /\ r.req.name \in UnscopedTools
       => /\ Len(r.log) <= 1
          /\ \A k \in 1..Len(r.log) : r.log[k].call = OperationCall(r.req.name)
    /\ r.req.name \in ChannelScoped
       => /\ Len(r.log) >= 1 => r.log[1].call = "auth.test"
          /\ \A k \in 1..Len(r.log) :
               r.log[k].call = OperationCall(r.req.name)
               => /\ k = Len(r.log)
                  /\ k >= 4
                  /\ r.log[k - 1].call \in {"conversations.members", "sleep"}
                  /\ r.req.channel \in Channels

\* the bot becomes a member only of the channel a channel-scoped invocation
\* was called for, by that invocation's join or invite
C22_JoinStep ==
  \A c \in Channels :
    (membership'[c] = "by adapter" /\ membership[c] # "by adapter")
    => \E i \in Slots :
         /\ inflight[i].pc = "join"
         /\ inflight[i].tool \in ChannelScoped
         /\ inflight[i].channel = c
         /\ inflight'[i].pc = "sleep"

\* C22: list_channels and list_users never make an identity check, a
\* channel inspection, a member listing, a join, an invite or a settle wait;
\* send_message and get_latest_message always go through the reconciliation
\* of the channel of their arguments before their own call.
C22_OnlyChannelScoped == []C22_Logs /\ [][C22_JoinStep]_vars

\* a list_channels answered with one call, on an adapter that has joined a
\* channel for an earlier send or read
C22_Witness ==
  /\ slackDone.req.name = "list_channels"
  /\ Calls(slackDone.log) = <<"conversations.list">>
  /\ slackDone.resp = SlackResult("list_channels")
  /\ \E c \in Channels : membership[c] = "by adapter"

\* ---------------------------------------------------------------------------
\* the calls of a reconciliation that ended Settled, with and without a join
SettledLogs(r) ==
  {<<"auth.test", "conversations.info", "conversations.members">>,
   <<"auth.test", "conversations.info", "conversations.members", "conversations.join", "sleep">>,
   <<"auth.test", "conversations.info", "conversations.members", "conversations.invite",
     "sleep">>}

\* the own call of a send or read comes after a reconciliation that ran to
\* its end without a failure
C23_Shape ==
  \A r \in SlackRuns :
    r.req.name \in ChannelScoped
    => \A k \in 1..Len(r.log) :
         r.log[k].call = OperationCall(r.req.name)
         => /\ k = Len(r.log)
            /\ SubSeq(Calls(r.log), 1, k - 1) \in SettledLogs(r)
            /\ \A j \in 1..(k - 1) : r.log[j].outcome \notin FailureOutcomes

\* an invocation that ends produces its one response in that step, and a
\* response is produced only by an invocation that ends or by a request
\* turned down when it arrives
C23_OneResponseStep ==
  /\ \A i \in Slots :
       (inflight[i].pc # "idle" /\ inflight'[i].pc = "idle")
       => /\ slackDone'.req = RequestOf(inflight[i])
          /\ slackDone'.resp.kind = "returned"
          /\ \A j \in Slots : j # i => inflight'[j] = inflight[j]
  /\ slackDone' # NoRun
     => \/ \E i \in Slots : inflight[i].pc # "idle" /\ inflight'[i].pc = "idle"
        \/ inflight' = inflight /\ slackDone'.resp.kind = "thrown"

\* C23: a send or read starts its own call only after its reconciliation
\* has ended without failure; every invocation that ends gives exactly one
\* response; and, every call coming back and the timer firing, every
\* accepted invocation ends.
C23_Terminates ==
  /\ []C23_Shape
  /\ [][C23_OneResponseStep]_vars
  /\ \A i \in Slots : (inflight[i].pc # "idle") ~> (inflight[i].pc = "idle")

\* a read that went through the invite and the wait and was answered
C23_Witness ==
  /\ slackDone.req.name = "get_latest_message"
  /\ Calls(slackDone.log) =
       <<"auth.test", "conversations.info", "conversations.members", "conversations.invite",
         "sleep", "conversations.history">>
  /\ slackDone.resp.kind = "returned"
  /\ \A i \in Slots : inflight[i].pc = "idle"

\* ---------------------------------------------------------------------------
\* a response text that carries the pair k: v, as fields of the message or
\* as an entry of a serialised record
EmbedsPair(text, k, v) == (text.k = k /\ text.v = v) \/ text.m[k] = v

\* C24: a get_value of k right after a set_value of k to v succeeds, and its
\* response text carries the pair k: v.
C24_GetEmbedsPair ==
  \A k \in Keys, v \in Vals :
    (memPrev = MemRequest("set_value", TRUE, k, v) /\ IsMemCall(memLast.req, "get_value")
       /\ memLast.req.key = k)
    => /\ memLast.resp.kind = "returned"
       /\ ~memLast.resp.isError
       /\ EmbedsPair(memLast.resp.text, k, v)

\* ---------------------------------------------------------------------------
\* C25: in every adapter a rejected server.connect(transport) ends the
\* process with a non-zero exit code, and no request is ever served.
C25_ConnectFatalStep ==
  (proc = "connecting" /\ proc' \notin {"connecting", "serving"})
  => /\ proc' = "exit 1"
     /\ listing' = NoListing
     /\ memLast' = NoEvent
     /\ npmLast' = NoCallEvent(NoNpmRequest)
     /\ ghLast' = NoCallEvent(NoGhRequest)
     /\ slackDone' = NoRun

C25_ConnectFatal == [][C25_ConnectFatalStep]_vars

\* ---------------------------------------------------------------------------
CommitCalls ==
  <<"git.getRef", "git.createBlob", "git.createTree", "git.createCommit", "git.updateRef">>

\* C26: the calls of a create_commit are a prefix of getRef, createBlob,
\* createTree, createCommit, updateRef; the handler returns only after all
\* five; when it stops earlier it throws InternalError, and updateRef is
\* called only as the fifth call, after the four before it resolved.
C26_CommitOrder ==
  (ghLast.req.name = "create_commit")
  => /\ IsPrefix(ghLast.calls, CommitCalls)
     /\ ghLast.resp.kind = "returned" => ghLast.calls = CommitCalls
     /\ (ghLast.resp.kind = "thrown" /\ Len(ghLast.calls) >= 1)
        => ghLast.resp.code = "InternalError"
     /\ Len(ghLast.calls) < 5 => ghLast.resp.kind = "thrown"
     /\ \A k \in 1..Len(ghLast.calls) : ghLast.calls[k] = "git.updateRef" => k = 5

\* createCommit was rejected: InternalError, and the branch was not moved
C26_Witness ==
  /\ ghLast.req = GhRequest("create_commit", TRUE, "none")
  /\ ghLast.calls = SubSeq(CommitCalls, 1, 4)
  /\ ghLast.resp.kind = "thrown"
  /\ ghLast.resp.code = "InternalError"

\* a step that answers a resources request of github-server
ResourcesStep == CallToolStep /\ ghRes'.kind # "none"

\* C27: the repository cache changes only where a resources request received
\* a record, and there it becomes the record received (so an entry is never
\* evicted and always is the record most recently fetched for its name); a
\* ReadResource of a cached name makes no outbound call and returns the cached
\* record; a ReadResource of an uncached name makes exactly one repos.get
\* call, returns and stores its record when the call resolves, and stores
\* nothing when it rejects; a ListResources that resolves stores every record
\* it returns.
C27_CacheStep ==
  /\ \A r \in Repos :
       repoCache'[r] = IF ResourcesStep /\ ghRes'.received[r] # NoEntry
                         THEN ghRes'.received[r] ELSE repoCache[r]
  /\ (ResourcesStep /\ ghRes'.kind = "read" /\ ghRes'.uri.match)
     => LET r == ghRes'.uri.fullName IN
        IF repoCache[r] # NoEntry
          THEN /\ ghRes'.calls = <<>>
               /\ ghRes'.resp = Returned(ResText("contents", {}, r, repoCache[r]))
               /\ ghRes'.received = NoReceived
          ELSE /\ ghRes'.calls = <<"repos.get">>
               /\ \A q \in Repos \ {r} : ghRes'.received[q] = NoEntry
               /\ IF ghRes'.resp.kind = "returned"
                    THEN /\ ghRes'.received[r] # NoEntry
                         /\ ghRes'.resp.text.record = ghRes'.received[r]
                    ELSE /\ ghRes'.received[r] = NoEntry
                         /\ ghRes'.resp.code = "InternalError"
  /\ (ResourcesStep /\ ghRes'.kind = "list")
     => /\ ghRes'.calls = <<"repos.listForAuthenticatedUser">>
        /\ IF ghRes'.resp.kind = "returned"
             THEN ghRes'.resp.text.names = {r \in Repos : ghRes'.received[r] # NoEntry}
             ELSE ghRes'.received = NoReceived

C27_Cache == [][C27_CacheStep]_vars

\* a ReadResource of a cached repository made no call and returned the cached
\* record, while another repository is still uncached
C27_Witness ==
  /\ ghRes.kind = "read"
  /\ ghRes.uri.match
  /\ ghRes.calls = <<>>
  /\ ghRes.resp.kind = "returned"
  /\ ghRes.resp.text.record = repoCache[ghRes.uri.fullName]
  /\ \E r \in Repos : repoCache[r] = NoEntry

\* ---------------------------------------------------------------------------
\* the release date info.time records for a version
DateOf(time, version) ==
  time[CHOOSE k \in 1..Len(time) : time[k].version = version].date

\* the versions info.time lists, without the two timestamp entries
PublishedVersions(time) ==
  {time[k].version : k \in 1..Len(time)} \ {"created", "modified"}

\* C28: the history of a get_release_history holds only published versions
\* (never 'created' or 'modified'), newest release first, every version left
\* out being older than every version listed, and its length is the smaller
\* of the number of published versions and the supplied limit, where a
\* request without limit counts as limit 5.
C28_ReleaseHistory ==
  npmHist.given
  => LET h == npmHist.versions
         time == npmHist.time
         all == PublishedVersions(time)
         want == IF npmHist.limit.given THEN npmHist.limit.n ELSE 5
     IN /\ Len(h) = IF want < Cardinality(all) THEN want ELSE Cardinality(all)
        /\ \A k \in 1..Len(h) : h[k] \in all
        /\ \A k, l \in 1..Len(h) : k < l => DateOf(time, h[k]) > DateOf(time, h[l])
        /\ \A v \in all : (\A k \in 1..Len(h) : h[k] # v)
                            => \A k \in 1..Len(h) : DateOf(time, v) < DateOf(time, h[k])


====
